---- MODULE Spec2Model ----
(***************************************************************************)
(* Termux FFmpeg Studio (studio.py): the interactive session of main(),    *)
(* one render job of MediaProcessor.run() with its external subprocesses,  *)
(* and the colour conversion AssGenerator._hex_to_ass().                    *)
(*                                                                         *)
(* Strings of the program that are only compared are TLA+ strings; a       *)
(* string the program slices or searches (the colour) is a sequence of     *)
(* one-character strings.  A line of the encoder's merged output is a      *)
(* record: its key (the text before '='), whether the text after '=' is a  *)
(* decimal integer, and that integer (in seconds, i.e. us = val * 10^6) or *)
(* an identifier of the text.                                              *)
(***************************************************************************)
EXTENDS Integers, Sequences, FiniteSets, TLC

\* ---- bounds of the model ----
MaxLines == 22
MaxDuration == 1
MaxHexLen == 7

\* ---- constants of the program ----
TailCap == 20
PreviewDuration == 15

Modes == {"hardsub_srt", "softsub", "hardsub_internal"}
Resolutions == {"Original", "720p", "480p"}
WatermarkPositions == {"Bottom-Right", "Top-Right", "Top-Left", "Bottom-Left", "Center"}
Durations == 0..MaxDuration
Patterns == {"progress", "diag", "mixed", "rewind"}

VIDEO == "movie.mkv"
SRT == "a.srt"
LOGO == "logo.png"
TEMP_SRT == "temp_extract.srt"
TEMP_ASS == "temp.ass"
NONE == "None"

VARIABLES
    pc,             \* position of main(): select_video, menu, run, press_enter, ask_another, exit
    cfg,            \* the JobConfig of the current job
    rpc,            \* position of MediaProcessor.run(): idle, extract, probe, read, wait, cleanup, report, notify, returned
    output_file,    \* self.output_file
    cleanup_files,  \* self.cleanup_files
    ass_file,       \* local ass_file of run()
    cmd,            \* the encoder argument list
    filters,        \* the stages joined into the -filter_complex argument
    total_duration, \* local total_duration of run()
    error_logs,     \* local error_logs of run()
    completed,      \* the value last given to progress.update(completed=...)
    updates,        \* every value given to progress.update in this run, in order (history)
    returncode,     \* process.returncode, -1 while it is None
    outcome,        \* what run() printed last: pending, aborted, succeeded, failed
    saved,          \* the file name printed in the SUCCESS panel
    reported_log,   \* the lines printed in the Error Log panel
    procs,          \* the external subprocesses that are alive, in spawn order
    enc_pat,        \* what the spawned encoder writes (environment)
    stdout_read,    \* every line readline() has returned in this run (history)
    at_eof,         \* readline() has returned the empty end-of-stream line
    disk,           \* the temporary files of the output directory
    created,        \* the temporary files this run wrote (history)
    phases,         \* the steps this run has taken, in order (history)
    prev,           \* how the previous run of the same job ended (history)
    hex_in,         \* argument of _hex_to_ass
    hex_out,        \* result of _hex_to_ass
    hex_done        \* _hex_to_ass has returned

sessionVars == <<pc, cfg>>
runVars == <<rpc, output_file, cleanup_files, ass_file, cmd, filters, total_duration,
             error_logs, completed, updates, returncode, outcome, saved, reported_log>>
envVars == <<procs, enc_pat, stdout_read, at_eof, disk, created, phases, prev>>
hexVars == <<hex_in, hex_out, hex_done>>
vars == <<sessionVars, runVars, envVars, hexVars>>

\* ---------------------------------------------------------------------
\* AssGenerator._hex_to_ass
\* ---------------------------------------------------------------------
HexDigits == {"0", "1", "2", "3", "4", "5", "6", "7", "8", "9", "A", "B", "C", "D", "E", "F"}

YELLOW_ASS == <<"&", "H", "0", "0", "0", "0", "F", "F", "F", "F">>
WHITE_ASS == <<"&", "H", "0", "0", "F", "F", "F", "F", "F", "F">>
RED_ASS == <<"&", "H", "0", "0", "0", "0", "0", "0", "F", "F">>

\* str.upper() on the characters the model uses
UpperChar(c) ==
    CASE c = "a" -> "A" [] c = "b" -> "B" [] c = "c" -> "C" [] c = "d" -> "D"
      [] c = "e" -> "E" [] c = "f" -> "F" [] c = "g" -> "G" [] c = "h" -> "H"
      [] c = "i" -> "I" [] c = "l" -> "L" [] c = "o" -> "O" [] c = "r" -> "R"
      [] c = "t" -> "T" [] c = "w" -> "W" [] c = "y" -> "Y"
      [] OTHER -> c

Upper(s) == [i \in 1..Len(s) |-> UpperChar(s[i])]

\* str.replace(ch, '')
RemoveChar(s, ch) == SelectSeq(s, LAMBDA c : c # ch)

\* str.strip() for the blank
RECURSIVE LStrip(_)
LStrip(s) == IF s # <<>> /\ Head(s) = " " THEN LStrip(Tail(s)) ELSE s

RECURSIVE RStrip(_)
RStrip(s) == IF s # <<>> /\ s[Len(s)] = " " THEN RStrip(SubSeq(s, 1, Len(s) - 1)) ELSE s

Strip(s) == RStrip(LStrip(s))

\* the Python test `sub in s` on strings
Contains(s, sub) ==
    \E i \in 0..(Len(s) - Len(sub)) : SubSeq(s, i + 1, i + Len(sub)) = sub

NormalizeHex(hex_color) == Strip(RemoveChar(Upper(hex_color), "#"))

hex_to_ass(hex_color) ==
    LET h == NormalizeHex(hex_color) IN
    IF Contains(h, <<"Y", "E", "L", "L", "O", "W">>) THEN YELLOW_ASS
    ELSE IF Contains(h, <<"W", "H", "I", "T", "E">>) THEN WHITE_ASS
    ELSE IF Contains(h, <<"R", "E", "D">>) THEN RED_ASS
    ELSE IF Len(h) # 6 THEN YELLOW_ASS
    ELSE <<"&", "H", "0", "0">> \o SubSeq(h, 5, 6) \o SubSeq(h, 3, 4) \o SubSeq(h, 1, 2)

\* ---------------------------------------------------------------------
\* The encoder's merged output (environment)
\* ---------------------------------------------------------------------
\* The i-th line a spawned encoder writes, by the kind of output it produces:
\* rising progress times, diagnostics only, a mix with an unparseable
\* out_time_us, and progress times that step back and once are negative.
PatternLine(pat, i) ==
    CASE pat = "progress" -> [key |-> "out_time_us", num |-> TRUE, val |-> i]
      [] pat = "diag" -> [key |-> "diag", num |-> FALSE, val |-> i]
      [] pat = "rewind" ->
            [key |-> "out_time_us", num |-> TRUE,
             val |-> IF i = 4 THEN -1 ELSE IF i % 2 = 0 THEN i ELSE i + 2]
      [] OTHER ->
            IF i % 3 = 1 THEN [key |-> "out_time_us", num |-> FALSE, val |-> 0]
            ELSE IF i % 3 = 2 THEN [key |-> "diag", num |-> FALSE, val |-> i % 2]
            ELSE [key |-> "out_time_us", num |-> TRUE, val |-> i]

\* ---------------------------------------------------------------------
\* MediaProcessor.run: building the command
\* ---------------------------------------------------------------------
Stage(in, in2, f, arg, out) == [in |-> in, in2 |-> in2, f |-> f, arg |-> arg, out |-> out]

pos_map(pos) ==
    CASE pos = "Top-Left" -> "20:20"
      [] pos = "Top-Right" -> "main_w-overlay_w-20:20"
      [] pos = "Bottom-Left" -> "20:main_h-overlay_h-20"
      [] pos = "Bottom-Right" -> "main_w-overlay_w-20:main_h-overlay_h-20"
      [] pos = "Center" -> "(main_w-overlay_w)/2:(main_h-overlay_h)/2"
      [] OTHER -> "20:20"

LastVid(fs) == IF fs = <<>> THEN "[0:v]" ELSE fs[Len(fs)].out

SubStage(c, ass, fs) ==
    IF ass # NONE
    THEN Append(fs, Stage(LastVid(fs), "", "subtitles", ass, "[v_sub]"))
    ELSE fs

\* variant: the scale stage reads the source stream whatever precedes it
ScaleStageFromSource(c, fs) ==
    IF c.resolution # "Original"
    THEN Append(fs, Stage("[0:v]", "", "scale",
                          IF c.resolution = "720p" THEN "-2:720" ELSE "-2:480", "[v_scale]"))
    ELSE fs

ScaleStage(c, fs) ==
    IF c.resolution # "Original"
    THEN Append(fs, Stage(LastVid(fs), "", "scale",
                          IF c.resolution = "720p" THEN "-2:720" ELSE "-2:480", "[v_scale]"))
    ELSE fs

OverlayStage(c, fs) ==
    IF c.watermark_path # NONE
    THEN Append(fs, Stage(LastVid(fs), "[1:v]", "overlay", pos_map(c.watermark_pos), "[v_fin]"))
    ELSE fs

BuildFilters(c, ass) == OverlayStage(c, ScaleStage(c, SubStage(c, ass, <<>>)))

AudioArgs == <<"-map", "0:a?", "-c:a", "copy">>

VideoMapArgs(fs) ==
    IF fs # <<>>
    THEN <<"-filter_complex", "filter_graph", "-map", LastVid(fs)>>
    ELSE <<"-map", "0:v">>

BuildCmd(c, ass, out) ==
    <<"ffmpeg", "-y", "-i", c.video_path>>
    \o (IF c.is_preview THEN <<"-ss", "00:00:30", "-t", "15">> ELSE <<>>)
    \o (IF c.watermark_path # NONE THEN <<"-i", c.watermark_path>> ELSE <<>>)
    \o VideoMapArgs(BuildFilters(c, ass))
    \o AudioArgs
    \o <<"-c:v", "libx264", "-preset", "veryfast", "-crf", "23", "-sn">>
    \o <<"-progress", "pipe:1", out>>

OutputFile(c) == IF c.is_preview THEN "PREVIEW_movie.mp4" ELSE "FINAL_movie.mp4"

\* ---------------------------------------------------------------------
\* MediaProcessor.run: supervising the encoder
\* ---------------------------------------------------------------------
\* variant: the newest line is dropped instead of the oldest
AppendTailPopNewest(logs, line) ==
    LET appended == Append(logs, line) IN
    IF Len(appended) > TailCap THEN SubSeq(appended, 1, TailCap) ELSE appended

\* error_logs.append(line_str); if len(error_logs) > 20: error_logs.pop(0)
AppendTail(logs, line) ==
    LET appended == Append(logs, line) IN
    IF Len(appended) > TailCap THEN Tail(appended) ELSE appended

\* variant: the percentage of the time that remains
PercentageRemaining(line, total) ==
    IF line.key = "out_time_us" /\ line.num /\ total # 0
    THEN <<((total - line.val) * 100) \div total>>
    ELSE <<>>

\* The value the try block of the out_time_us branch hands to progress.update,
\* as a one-element sequence: (us / 1_000_000 / total_duration) * 100, rounded
\* down to a whole percent; empty when the line is no out_time_us line or
\* int() or the division raises, so that progress.update is not reached.
Percentage(line, total) ==
    IF line.key = "out_time_us" /\ line.num /\ total # 0
    THEN <<(line.val * 100) \div total>>
    ELSE <<>>

\* The try block of the out_time_us branch: the new value of the progress bar,
\* the old one when int() or the division raises.
UpdateProgress(old, line, total) ==
    IF line.key = "out_time_us" /\ line.num /\ total # 0
    THEN (line.val * 100) \div total
    ELSE old

\* variant: the size of the extracted file is not looked at
ExtractedExists(d) == d.temp_srt # "absent"

\* temp_srt.exists() and temp_srt.stat().st_size > 0
ExtractedOk(d) == d.temp_srt = "nonempty"

\* what the extraction left on disk, as a step of the run's history
ExtractedPhase(d) ==
    CASE d.temp_srt = "nonempty" -> "extracted_nonempty"
      [] d.temp_srt = "empty" -> "extracted_empty"
      [] OTHER -> "extracted_absent"

OnDisk(d, f) ==
    IF f = TEMP_SRT THEN d.temp_srt # "absent"
    ELSE IF f = TEMP_ASS THEN d.temp_ass
    ELSE FALSE

\* for f in self.cleanup_files: if f.exists(): os.remove(f)
RemoveAll(d, fs) ==
    [temp_srt |-> IF \E i \in 1..Len(fs) : fs[i] = TEMP_SRT THEN "absent" ELSE d.temp_srt,
     temp_ass |-> IF \E i \in 1..Len(fs) : fs[i] = TEMP_ASS THEN FALSE ELSE d.temp_ass]

\* variant: the exit status is ignored
OutcomeAlwaysSucceeded(rc) == "succeeded"

\* process.returncode == 0 selects the SUCCESS panel, anything else the Error Log
OutcomeOf(rc) == IF rc = 0 THEN "succeeded" ELSE "failed"

\* Where main() continues when `await MediaProcessor(cfg).run()` returns:
\* after a preview it resets is_preview and waits for Enter, after a render it
\* leaves the confirmation loop.
SessionAfterRun(c) == IF c.is_preview THEN "press_enter" ELSE "ask_another"

\* variant: the exception of create() leaves run() and ends main()
OnAssErrorPropagates(c) == "exit"

\* `except Exception: return` around AssGenerator.create: the run returns to main()
OnAssError(c) == SessionAfterRun(c)

\* A subprocess is spawned / has exited
Spawn(ps, name) == Append(ps, name)

Exited(ps, name) == SelectSeq(ps, LAMBDA p : p # name)

\* variant: run() goes on without waiting for the encoder to exit
AfterWaitNotAwaited(ps) == ps

\* `await process.wait()`: the encoder is no longer alive when it returns
AfterWait(ps) == Exited(ps, "encoder")

NoPrev == [kind |-> NONE, phases |-> <<>>]

\* ---------------------------------------------------------------------
\* Initial state: main() before the first prompt
\* ---------------------------------------------------------------------
NoJob ==
    [video_path |-> NONE, mode |-> "hardsub_srt", subtitle_path |-> NONE,
     watermark_path |-> NONE, watermark_pos |-> "Bottom-Right",
     resolution |-> "Original", is_preview |-> FALSE]

InitSession ==
    /\ pc = "select_video"
    /\ cfg = NoJob
    /\ rpc = "idle"
    /\ output_file = NONE
    /\ cleanup_files = <<>>
    /\ ass_file = NONE
    /\ cmd = <<>>
    /\ filters = <<>>
    /\ total_duration = 0
    /\ error_logs = <<>>
    /\ completed = 0
    /\ updates = <<>>
    /\ returncode = -1
    /\ outcome = "pending"
    /\ saved = NONE
    /\ reported_log = <<>>
    /\ procs = <<>>
    /\ enc_pat = NONE
    /\ stdout_read = <<>>
    /\ at_eof = FALSE
    /\ disk = [temp_srt |-> "absent", temp_ass |-> FALSE]
    /\ created = {}
    /\ phases = <<>>
    /\ prev = NoPrev

Init ==
    /\ InitSession
    /\ hex_in = <<"F", "F", "F", "F", "0", "0">>
    /\ hex_out = <<>>
    /\ hex_done = FALSE

\* ---------------------------------------------------------------------
\* main(): the prompts
\* ---------------------------------------------------------------------
\* The MediaProcessor of a finished run and the locals of its run() are gone
\* once main() moves on to its next prompt.
DropRun ==
    /\ rpc' = "idle"
    /\ output_file' = NONE
    /\ cleanup_files' = <<>>
    /\ ass_file' = NONE
    /\ cmd' = <<>>
    /\ filters' = <<>>
    /\ total_duration' = 0
    /\ error_logs' = <<>>
    /\ completed' = 0
    /\ updates' = <<>>
    /\ returncode' = -1
    /\ outcome' = "pending"
    /\ saved' = NONE
    /\ reported_log' = <<>>
    /\ enc_pat' = NONE
    /\ stdout_read' = <<>>
    /\ at_eof' = FALSE
    /\ created' = {}
    /\ phases' = <<>>

\* Steps 1-4 of main(): a video, a mode, the subtitle source the mode needs,
\* a resolution and a watermark are chosen.  The `continue` of a missing
\* subtitle file or of a video without subtitle streams returns to this prompt
\* and changes nothing.
ConfigureJob ==
    /\ pc = "select_video"
    /\ \E m \in Modes, r \in Resolutions, w \in {NONE, LOGO}, p \in WatermarkPositions :
          cfg' = [video_path |-> VIDEO, mode |-> m,
                  subtitle_path |-> IF m = "hardsub_internal" THEN NONE ELSE SRT,
                  watermark_path |-> w,
                  watermark_pos |-> IF w = NONE THEN "Bottom-Right" ELSE p,
                  resolution |-> r, is_preview |-> FALSE]
    /\ pc' = "menu"
    /\ prev' = NoPrev
    /\ UNCHANGED <<runVars, procs, enc_pat, stdout_read, at_eof, disk, created, phases, hexVars>>

\* select_file returns None: `if not video: break`
NoVideo ==
    /\ pc = "select_video"
    /\ pc' = "exit"
    /\ UNCHANGED <<cfg, runVars, envVars, hexVars>>

EditSettings ==
    /\ pc = "menu"
    /\ pc' = "ask_another"
    /\ DropRun
    /\ UNCHANGED <<cfg, procs, disk, prev, hexVars>>

PressEnter ==
    /\ pc = "press_enter"
    /\ pc' = "menu"
    /\ DropRun
    /\ UNCHANGED <<cfg, procs, disk, prev, hexVars>>

AnotherVideo ==
    /\ pc = "ask_another"
    /\ pc' = "select_video"
    /\ DropRun
    /\ UNCHANGED <<cfg, procs, disk, prev, hexVars>>

Goodbye ==
    /\ pc = "ask_another"
    /\ pc' = "exit"
    /\ DropRun
    /\ UNCHANGED <<cfg, procs, disk, prev, hexVars>>

\* ---------------------------------------------------------------------
\* MediaProcessor.run, one action per stretch of code between two awaits
\* ---------------------------------------------------------------------
\* run() returns to main() (any `return`, or the end of the function)
Return(c, nextpc, ph) ==
    /\ rpc' = "returned"
    /\ pc' = nextpc
    /\ cfg' = [c EXCEPT !.is_preview = FALSE]
    /\ phases' = ph
    /\ prev' = IF c.is_preview THEN [kind |-> "PREVIEW", phases |-> ph] ELSE NoPrev

\* Lines 239-298: the command is built, then either the duration prober or
\* (preview) the encoder is spawned.
Launch(c, ass, ph) ==
    /\ filters' = BuildFilters(c, ass)
    /\ cmd' = BuildCmd(c, ass, OutputFile(c))
    /\ cfg' = c
    /\ pc' = "run"
    /\ prev' = prev
    /\ IF c.is_preview
       THEN /\ total_duration' = PreviewDuration
            /\ rpc' = "read"
            /\ procs' = Spawn(Exited(procs, "extract"), "encoder")
            /\ \E pat \in Patterns : enc_pat' = pat
            /\ phases' = Append(ph, "spawn")
       ELSE /\ total_duration' = 0
            /\ rpc' = "probe"
            /\ procs' = Spawn(Exited(procs, "extract"), "ffprobe")
            /\ enc_pat' = NONE
            /\ phases' = Append(ph, "probe")

\* Lines 233-237 and on: the subtitle script is generated from srt_source when
\* the mode is a hardsub mode; create() raising (the source is empty or cannot
\* be read, before the script is opened for writing) ends the run.
Prepare(c, cleanup0, disk0, created0, ph) ==
    IF c.mode # "softsub"
    THEN \E ok \in BOOLEAN :
            IF ok
            THEN /\ ass_file' = TEMP_ASS
                 /\ cleanup_files' = Append(cleanup0, TEMP_ASS)
                 /\ disk' = [disk0 EXCEPT !.temp_ass = TRUE]
                 /\ created' = created0 \cup {TEMP_ASS}
                 /\ outcome' = "pending"
                 /\ Launch(c, TEMP_ASS, ph)
            ELSE /\ ass_file' = NONE
                 /\ cleanup_files' = cleanup0
                 /\ disk' = disk0
                 /\ created' = created0
                 /\ outcome' = "aborted"
                 /\ Return(c, OnAssError(c), Append(ph, "abort"))
                 /\ procs' = Exited(procs, "extract")
                 /\ UNCHANGED <<cmd, filters, total_duration, enc_pat>>
    ELSE /\ ass_file' = NONE
         /\ cleanup_files' = cleanup0
         /\ disk' = disk0
         /\ created' = created0
         /\ outcome' = "pending"
         /\ Launch(c, NONE, ph)

\* main() lines 482-484 / 488-489 and run() up to its first await
StartRun(preview) ==
    /\ pc = "menu"
    /\ LET c == [cfg EXCEPT !.is_preview = preview] IN
       /\ output_file' = OutputFile(c)
       /\ error_logs' = <<>>
       /\ completed' = 0
       /\ updates' = <<>>
       /\ returncode' = -1
       /\ saved' = NONE
       /\ reported_log' = <<>>
       /\ stdout_read' = <<>>
       /\ at_eof' = FALSE
       /\ IF c.mode = "hardsub_internal"
          THEN /\ rpc' = "extract"
               /\ procs' = Spawn(procs, "extract")
               /\ phases' = <<"extract">>
               /\ cfg' = c
               /\ pc' = "run"
               /\ cleanup_files' = <<>>
               /\ ass_file' = NONE
               /\ cmd' = <<>>
               /\ filters' = <<>>
               /\ total_duration' = 0
               /\ outcome' = "pending"
               /\ enc_pat' = NONE
               /\ created' = {}
               /\ UNCHANGED <<disk, prev>>
          ELSE Prepare(c, <<>>, disk, {}, <<>>)
    /\ UNCHANGED hexVars

Preview == StartRun(TRUE)

StartRender == StartRun(FALSE)

\* _extract_internal_sub after `await p.wait()`, then run() lines 229-298
ExtractDone ==
    /\ rpc = "extract"
    /\ \E res \in {"nonempty", "empty", "untouched"} :
          LET d == IF res = "untouched" THEN disk ELSE [disk EXCEPT !.temp_srt = res]
              cr == IF res = "untouched" THEN created ELSE created \cup {TEMP_SRT}
              ph == Append(phases, ExtractedPhase(d))
          IN  IF ExtractedOk(d)
              THEN Prepare(cfg, Append(cleanup_files, TEMP_SRT), d, cr, ph)
              ELSE /\ disk' = d
                   /\ created' = cr
                   /\ outcome' = "aborted"
                   /\ Return(cfg, SessionAfterRun(cfg), Append(ph, "abort"))
                   /\ procs' = Exited(procs, "extract")
                   /\ UNCHANGED <<cleanup_files, ass_file, cmd, filters, total_duration, enc_pat>>
    /\ UNCHANGED <<output_file, error_logs, completed, updates, returncode, saved, reported_log,
                   stdout_read, at_eof, hexVars>>

\* get_video_duration returns (0.0 when the prober fails), the encoder is spawned
ProbeDone ==
    /\ rpc = "probe"
    /\ \E d \in Durations : total_duration' = d
    /\ procs' = Spawn(Exited(procs, "ffprobe"), "encoder")
    /\ \E pat \in Patterns : enc_pat' = pat
    /\ rpc' = "read"
    /\ phases' = Append(phases, "spawn")
    /\ UNCHANGED <<sessionVars, output_file, cleanup_files, ass_file, cmd, filters, error_logs,
                   completed, updates, returncode, outcome, saved, reported_log, stdout_read, at_eof,
                   disk, created, prev, hexVars>>

\* one iteration of the read loop with a non-empty line
ReadLine ==
    /\ rpc = "read"
    /\ Len(stdout_read) < MaxLines
    /\ LET line == PatternLine(enc_pat, Len(stdout_read) + 1) IN
       /\ stdout_read' = Append(stdout_read, line)
       /\ error_logs' = AppendTail(error_logs, line)
       /\ completed' = UpdateProgress(completed, line, total_duration)
       /\ updates' = updates \o Percentage(line, total_duration)
    /\ UNCHANGED <<sessionVars, rpc, output_file, cleanup_files, ass_file, cmd, filters,
                   total_duration, returncode, outcome, saved, reported_log, procs, enc_pat,
                   at_eof, disk, created, phases, prev, hexVars>>

\* readline() returns b'': `if not line: break`
ReadEOF ==
    /\ rpc = "read"
    /\ at_eof' = TRUE
    /\ rpc' = "wait"
    /\ phases' = Append(phases, "eof")
    /\ UNCHANGED <<sessionVars, output_file, cleanup_files, ass_file, cmd, filters,
                   total_duration, error_logs, completed, updates, returncode, outcome, saved,
                   reported_log, procs, enc_pat, stdout_read, disk, created, prev, hexVars>>

\* `await process.wait()` returns
WaitDone ==
    /\ rpc = "wait"
    /\ \E rc \in {0, 1} : returncode' = rc
    /\ procs' = AfterWait(procs)
    /\ rpc' = "cleanup"
    /\ phases' = Append(phases, "exit")
    /\ UNCHANGED <<sessionVars, output_file, cleanup_files, ass_file, cmd, filters,
                   total_duration, error_logs, completed, updates, outcome, saved, reported_log,
                   enc_pat, stdout_read, at_eof, disk, created, prev, hexVars>>

\* lines 333-335
Cleanup ==
    /\ rpc = "cleanup"
    /\ disk' = RemoveAll(disk, cleanup_files)
    /\ rpc' = "report"
    /\ phases' = Append(phases, "cleanup")
    /\ UNCHANGED <<sessionVars, output_file, cleanup_files, ass_file, cmd, filters,
                   total_duration, error_logs, completed, updates, returncode, outcome, saved,
                   reported_log, procs, enc_pat, stdout_read, at_eof, created, prev, hexVars>>

\* lines 337-343
Report ==
    /\ rpc = "report"
    /\ outcome' = OutcomeOf(returncode)
    /\ IF OutcomeOf(returncode) = "succeeded"
       THEN /\ saved' = output_file
            /\ reported_log' = reported_log
            /\ \E notifier \in BOOLEAN :
                  IF ~cfg.is_preview /\ notifier
                  THEN /\ procs' = Spawn(procs, "termux-notification")
                       /\ rpc' = "notify"
                       /\ phases' = Append(phases, "report")
                       /\ UNCHANGED <<sessionVars, prev>>
                  ELSE /\ procs' = procs
                       /\ Return(cfg, SessionAfterRun(cfg), Append(phases, "report"))
       ELSE /\ saved' = saved
            /\ reported_log' = error_logs
            /\ procs' = procs
            /\ Return(cfg, SessionAfterRun(cfg), Append(phases, "report"))
    /\ UNCHANGED <<output_file, cleanup_files, ass_file, cmd, filters, total_duration,
                   error_logs, completed, updates, returncode, enc_pat, stdout_read, at_eof, disk,
                   created, hexVars>>

\* subprocess.run(["termux-notification", ...]) returns
NotifyDone ==
    /\ rpc = "notify"
    /\ procs' = Exited(procs, "termux-notification")
    /\ Return(cfg, SessionAfterRun(cfg), phases)
    /\ UNCHANGED <<output_file, cleanup_files, ass_file, cmd, filters, total_duration,
                   error_logs, completed, updates, returncode, outcome, saved, reported_log, enc_pat,
                   stdout_read, at_eof, disk, created, hexVars>>

Next ==
    \/ ConfigureJob
    \/ NoVideo
    \/ Preview
    \/ StartRender
    \/ EditSettings
    \/ PressEnter
    \/ AnotherVideo
    \/ Goodbye
    \/ ExtractDone
    \/ ProbeDone
    \/ ReadLine
    \/ ReadEOF
    \/ WaitDone
    \/ Cleanup
    \/ Report
    \/ NotifyDone

Spec == Init /\ [][Next]_vars

\* ---------------------------------------------------------------------
\* _hex_to_ass on its own: every input of HexInputs, converted once
\* ---------------------------------------------------------------------
HexAlphabet == {"f", "0", "G", "#"}

Chars(n) == UNION {[1..k -> HexAlphabet] : k \in 0..n}

NamedInputs ==
    {<<"Y", "E", "L", "L", "O", "W">>, <<"W", "H", "I", "T", "E">>, <<"R", "E", "D">>,
     <<"Y", "e", "l", "l", "o", "w">>, <<"D", "A", "R", "K", "R", "E", "D">>,
     <<" ", "0", "0", "f", "f", "0", "0", " ">>, <<"F", "F", " ", "0", "0", "F", "F">>}

HexInputs == Chars(MaxHexLen) \cup NamedInputs

InitHex ==
    /\ InitSession
    /\ hex_in \in HexInputs
    /\ hex_out = <<>>
    /\ hex_done = FALSE

HexToAss ==
    /\ ~hex_done
    /\ hex_out' = hex_to_ass(hex_in)
    /\ hex_done' = TRUE
    /\ UNCHANGED <<sessionVars, runVars, envVars, hex_in>>

NextHex == HexToAss

SpecHex == InitHex /\ [][NextHex]_vars

\* ---------------------------------------------------------------------
\* Properties
\* ---------------------------------------------------------------------
Has(seq, x) == \E i \in 1..Len(seq) : seq[i] = x

LastN(seq, n) == SubSeq(seq, Len(seq) - n + 1, Len(seq))

Min(a, b) == IF a < b THEN a ELSE b

\* the arguments that follow each -i of a command
RECURSIVE InputsOf(_)
InputsOf(args) ==
    IF Len(args) < 2 THEN <<>>
    ELSE IF Head(args) = "-i" THEN <<args[2]>> \o InputsOf(Tail(Tail(args)))
    ELSE InputsOf(Tail(args))

\* the argument that follows the first occurrence of a flag, NONE without one
RECURSIVE ArgOf(_, _)
ArgOf(args, flag) ==
    IF Len(args) < 2 THEN NONE
    ELSE IF Head(args) = flag THEN args[2]
    ELSE ArgOf(Tail(args), flag)

RunReturned == rpc = "returned"

CommandBuilt == cmd # <<>>

\* C1: whichever way a run ends, no temporary file the run wrote (the extracted
\* subtitle file, the generated subtitle script) is still on disk when it returns.
C1_NoTempFileLeftBehind ==
    RunReturned => \A f \in created : ~OnDisk(disk, f)

\* C2: the command of a Soft-Mux job has no subtitles= stage, has exactly one
\* input beyond the source and the watermark, that input is the external
\* subtitle file, and its first stream is mapped as a text-subtitle track.
C2_SoftMuxCarriesSubtitleInput ==
    (CommandBuilt /\ cfg.mode = "softsub") =>
        LET ins == InputsOf(cmd)
            wm == IF cfg.watermark_path # NONE THEN 1 ELSE 0
        IN  /\ \A i \in 1..Len(filters) : filters[i].f # "subtitles"
            /\ Len(ins) = 2 + wm
            /\ ins[Len(ins)] = cfg.subtitle_path
            /\ Has(cmd, IF wm = 1 THEN "2:0" ELSE "1:0")
            /\ ArgOf(cmd, "-c:s") = "mov_text"

\* C3: after n lines read, error_logs is the last min(n, 20) of them in order,
\* so it never holds more than 20; the Error Log of a failed run is that tail.
C3_TailIsLastLines ==
    /\ Len(error_logs) <= TailCap
    /\ error_logs = LastN(stdout_read, Min(Len(stdout_read), TailCap))
    /\ outcome = "failed" =>
          reported_log = LastN(stdout_read, Min(Len(stdout_read), TailCap))

C3_Witness ==
    /\ outcome = "failed"
    /\ Len(stdout_read) > TailCap
    /\ Len(reported_log) = TailCap
    /\ reported_log[1] = stdout_read[Len(stdout_read) - TailCap + 1]

\* C4: when the extraction of a Hardsub-From-Internal-Track job leaves no
\* non-empty file, the run has returned without generating a subtitle script,
\* building a command, invoking the prober, spawning the encoder or reporting
\* an output file.
ExtractionLeftNothing ==
    /\ cfg.mode = "hardsub_internal"
    /\ Has(phases, "extracted_empty") \/ Has(phases, "extracted_absent")

C4_AbortBeforePlanning ==
    ExtractionLeftNothing =>
        /\ RunReturned
        /\ outcome = "aborted"
        /\ ass_file = NONE
        /\ TEMP_ASS \notin created
        /\ ~CommandBuilt
        /\ filters = <<>>
        /\ ~Has(phases, "probe")
        /\ ~Has(phases, "spawn")
        /\ procs = <<>>
        /\ saved = NONE

C4_Witness ==
    /\ ExtractionLeftNothing
    /\ Has(phases, "extracted_empty")
    /\ RunReturned

\* C5: the stages that fire appear in the order burn-in, scale, overlay; the
\* first reads [0:v], each later one reads the label the stage before it
\* wrote, and the video -map names the last label; with no stage there is no
\* -filter_complex and the video map is 0:v.
Fires(kind) ==
    CASE kind = "subtitles" -> ass_file # NONE
      [] kind = "scale" -> cfg.resolution # "Original"
      [] OTHER -> cfg.watermark_path # NONE

C5_FilterChainLinked ==
    CommandBuilt =>
        LET n == Len(filters) IN
        /\ [i \in 1..n |-> filters[i].f]
              = SelectSeq(<<"subtitles", "scale", "overlay">>, Fires)
        /\ n > 0 => filters[1].in = "[0:v]"
        /\ \A i \in 2..n : filters[i].in = filters[i - 1].out
        /\ n > 0 => /\ Has(cmd, "-filter_complex")
                    /\ ArgOf(cmd, "-map") = filters[n].out
        /\ n = 0 => /\ ~Has(cmd, "-filter_complex")
                    /\ ArgOf(cmd, "-map") = "0:v"

C5_Witness ==
    /\ CommandBuilt
    /\ Len(filters) = 3
    /\ ArgOf(cmd, "-map") = "[v_fin]"

\* C6: a 6-hex-digit colour RRGGBB gives &H00BBGGRR, an input that names a
\* preset (yellow, white, red) gives that preset, and every other input gives
\* the yellow preset.
IsHex6(h) == Len(h) = 6 /\ \A i \in 1..6 : h[i] \in HexDigits

C6_InvalidColourIsYellow ==
    hex_done =>
        LET h == NormalizeHex(hex_in) IN
        hex_out =
            IF IsHex6(h)
            THEN <<"&", "H", "0", "0", h[5], h[6], h[3], h[4], h[1], h[2]>>
            ELSE IF Contains(h, <<"Y", "E", "L", "L", "O", "W">>) THEN YELLOW_ASS
            ELSE IF Contains(h, <<"W", "H", "I", "T", "E">>) THEN WHITE_ASS
            ELSE IF Contains(h, <<"R", "E", "D">>) THEN RED_ASS
            ELSE YELLOW_ASS

\* C7: every command re-encodes the audio with a fixed codec at a fixed
\* bitrate and never stream-copies it.
C7_AudioReencoded ==
    CommandBuilt =>
        /\ ArgOf(cmd, "-c:a") # NONE
        /\ ArgOf(cmd, "-c:a") # "copy"
        /\ ArgOf(cmd, "-b:a") # NONE

\* C8: a run that fails (aborted before the encoder, or encoder exit status
\* non-zero) returns to a prompt of main() with no subprocess alive; from that
\* prompt the user can go on to the menu or the video prompt, where a preview,
\* a render or another video can be started; main() ends only at its own two
\* exits, the video prompt and the "Process another video?" prompt.
FailedReturn == RunReturned /\ outcome \in {"aborted", "failed"}

C8_SessionSurvivesFailure ==
    /\ [](FailedReturn => /\ pc \in {"press_enter", "ask_another"}
                          /\ procs = <<>>)
    /\ [](pc = "press_enter" => ENABLED PressEnter)
    /\ [](pc = "ask_another" => ENABLED AnotherVideo)
    /\ [](pc = "select_video" => ENABLED ConfigureJob)
    /\ [](pc = "menu" => ENABLED Preview /\ ENABLED StartRender)
    /\ [][pc' = "exit" => pc \in {"select_video", "ask_another"}]_vars

C8_Witness ==
    /\ pc = "run"
    /\ rpc = "read"
    /\ prev.kind = "PREVIEW"
    /\ Has(prev.phases, "abort")

\* C9: at most one subprocess is alive at any time, and when a run after a
\* preview of the same job starts, no subprocess is alive and a preview that
\* spawned the encoder has seen it exit and has finished its cleanup.
RunStarts == pc = "menu" /\ pc' = "run"

EncoderSpawned == Has(phases, "spawn")

C10_EncoderRunLifecycle ==
    EncoderSpawned =>
        /\ outcome \in {"pending", "succeeded", "failed"}
        /\ ~at_eof => /\ rpc = "read"
                      /\ outcome = "pending"
                      /\ LastN(phases, 1) = <<"spawn">>
        /\ outcome # "pending" =>
              /\ at_eof
              /\ LastN(phases, 5) = <<"spawn", "eof", "exit", "cleanup", "report">>
              /\ Cardinality({i \in 1..Len(phases) : phases[i] = "report"}) = 1
              /\ outcome = "succeeded" <=> returncode = 0
              /\ outcome = "succeeded" => saved = output_file /\ reported_log = <<>>
              /\ outcome = "failed" => saved = NONE /\ reported_log = error_logs
        /\ RunReturned => outcome # "pending"

C10_Witness ==
    /\ outcome = "failed"
    /\ returncode = 1
    /\ \E i \in 1..Len(stdout_read) :
          stdout_read[i].key = "out_time_us" /\ ~stdout_read[i].num
    /\ RunReturned

\* C11 as stated: every value given to the progress bar lies within 0..100 and
\* is not lower than the value given before it.
C11_ProgressInRangeAndRising ==
    \A i \in 1..Len(updates) :
        /\ 0 <= updates[i]
        /\ updates[i] <= 100
        /\ i > 1 => updates[i - 1] <= updates[i]

\* C11 as amended: with a zero total duration no value is given to the progress
\* bar; otherwise each parseable out_time_us line gives one value, the whole
\* percent of elapsed / total, unclamped: it lies within 0..100 when the
\* elapsed time lies within 0..total, and it is not lower than the value before
\* it when the elapsed time is not lower than that of the line before it.
ProgressLines == SelectSeq(stdout_read, LAMBDA l : l.key = "out_time_us" /\ l.num)

C11_ProgressFollowsElapsed ==
    LET el == ProgressLines IN
    /\ total_duration = 0 => updates = <<>>
    /\ total_duration # 0 =>
          /\ Len(updates) = Len(el)
          /\ \A i \in 1..Len(updates) :
                /\ updates[i] * total_duration <= el[i].val * 100
                /\ el[i].val * 100 < (updates[i] + 1) * total_duration
                /\ (0 <= el[i].val /\ el[i].val <= total_duration) =>
                      (0 <= updates[i] /\ updates[i] <= 100)
                /\ (i > 1 /\ el[i - 1].val <= el[i].val) => updates[i - 1] <= updates[i]

C11_Witness ==
    /\ rpc = "read"
    /\ total_duration = PreviewDuration
    /\ Len(updates) >= 3
    /\ 0 <= updates[1]
    /\ updates[1] < updates[2]
    /\ updates[2] < updates[3]
    /\ updates[3] <= 100

====
